---- MODULE Spec2Model ----
(***************************************************************************)
(* PyShare: a controller that owns one background HTTP file-server         *)
(* process, driven by three front ends (pyshare_cli.PyShareCLI,            *)
(* pyshare_rich.PyShareRich, pyshare.PyShareApp).  The model holds the     *)
(* controller's fields, the operating system's view of the processes it    *)
(* launched (multiprocessing.Process running run_server), the TCP ports    *)
(* held by other programs and the directories that exist.                  *)
(***************************************************************************)
EXTENDS Integers, Sequences, FiniteSets, TLC

\* ------------------------------------------------------------ bounds
\* Number of server processes that may exist at one time.
MaxProcs == 2
\* Anchors on a listing page, words in a selection, chunks of a response body.
MaxAnchors == 3
MaxTokens == 2
MaxChunks == 2

\* ------------------------------------------------- program constants
DefaultPort == 8000
MinPort == 1024
MaxPort == 65535
\* A second valid port the user may type.
OtherPort == DefaultPort + 1

\* Python's None held in an int field (PyShareApp.port after a dialog is
\* dismissed without a result) and in a path field.
NonePort == -1
NoneDir == "<None>"

\* os.getcwd() when the front end starts, a second directory, which the
\* environment may remove and create again, and a path that never exists.
Cwd == "/srv/a"
OtherDir == "/srv/b"
NoDir == "/nope"

Pids == 1 .. MaxProcs
FrontEnds == {"cli", "rich", "app"}

\* ------------------------------------------------------ text helpers
\* Text typed by the user is a sequence of characters.
Digits == {"0", "1", "2", "3", "4", "5", "6", "7", "8", "9"}

DigitVal(c) ==
    CASE c = "0" -> 0 [] c = "1" -> 1 [] c = "2" -> 2 [] c = "3" -> 3
      [] c = "4" -> 4 [] c = "5" -> 5 [] c = "6" -> 6 [] c = "7" -> 7
      [] c = "8" -> 8 [] c = "9" -> 9

DigitChar(d) ==
    CASE d = 0 -> "0" [] d = 1 -> "1" [] d = 2 -> "2" [] d = 3 -> "3"
      [] d = 4 -> "4" [] d = 5 -> "5" [] d = 6 -> "6" [] d = 7 -> "7"
      [] d = 8 -> "8" [] d = 9 -> "9"

RECURSIVE DigitsVal(_)
DigitsVal(s) ==
    IF s = <<>> THEN 0
    ELSE 10 * DigitsVal(SubSeq(s, 1, Len(s) - 1)) + DigitVal(s[Len(s)])

AllDigits(s) == s # <<>> /\ \A i \in 1 .. Len(s) : s[i] \in Digits

\* int(text): [ok |-> TRUE, val |-> n], or ok = FALSE where Python raises
\* ValueError.  An optional sign is followed by at least one digit.
ParseInt(s) ==
    IF AllDigits(s) THEN [ok |-> TRUE, val |-> DigitsVal(s)]
    ELSE IF s # <<>> /\ s[1] \in {"-", "+"} /\ AllDigits(Tail(s))
    THEN [ok |-> TRUE,
          val |-> IF s[1] = "-" THEN 0 - DigitsVal(Tail(s)) ELSE DigitsVal(Tail(s))]
    ELSE [ok |-> FALSE, val |-> 0]

RECURSIVE NatToStr(_)
NatToStr(n) ==
    IF n < 10 THEN <<DigitChar(n)>>
    ELSE NatToStr(n \div 10) \o <<DigitChar(n % 10)>>

\* str(port) / the f-string's {self.port}.
PortStr(p) ==
    IF p = NonePort THEN <<"N", "o", "n", "e">>
    ELSE IF p < 0 THEN <<"-">> \o NatToStr(0 - p)
    ELSE NatToStr(p)

\* f"http://{get_local_ip()}:{self.port}"; the empty sequence is "".
MakeUrl(ip, p) == <<"http://", ip, ":">> \o PortStr(p)

\* What get_local_ip() can return: an interface address, or the fallback.
LocalIps(fe) ==
    IF fe = "app" THEN {"192.168.1.5", "?.?.?.?"} ELSE {"192.168.1.5", "127.0.0.1"}

\* The texts the user types at a port prompt and at a directory prompt.
PortInputs ==
    { <<"8", "0", "0", "0">>, <<"8", "0", "0", "1">>, <<"8", "0">>,
      <<"7", "0", "0", "0", "0">>, <<"a", "b", "c">>, <<>> }
DirInputs == {Cwd, OtherDir, NoDir, ""}

\* -------------------------------------------------------------- state
VARIABLES
    frontend,      \* which front end this run is: "cli", "rich" or "app"
    dismiss_none,  \* app: the installed Textual calls the push_screen callback
                   \* with None when a dialog is dismissed without a result
    pc,            \* "run", "dir_dialog", "port_dialog", "done" or "crashed"
    shared_dir,    \* self.shared_dir
    port,          \* self.port
    proc,          \* self.proc / self.server_proc / self.server_process: a pid, 0 is None
    url,           \* self.url
    shown,         \* the status panel as last drawn (rich, app)
    last,          \* the last command and the lines it printed
    procs,         \* the launched processes, as the operating system sees them
    external,      \* ports held by other programs
    dirs,          \* the directories that exist
    rx             \* pyshare_recv.py: the receiver's run

ctl == <<pc, shared_dir, port, proc, url, shown, last, procs>>
env == <<external, dirs>>
vars == <<frontend, dismiss_none, pc, shared_dir, port, proc, url, shown, last,
          procs, external, dirs, rx>>

NoProc == [st |-> "none", dir |-> "", port |-> 0, term |-> FALSE]
NoShow == [status |-> "", url |-> <<>>, qr |-> <<>>, dir |-> ""]

\* Process.is_alive() on a handle that may be None.
IsAlive(ps, p) == p # 0 /\ ps[p].st \in {"starting", "listening"}

\* No listener on port q: neither another program nor a launched server.
PortFree(ps, ext, q) ==
    /\ q \notin ext
    /\ \A p \in Pids : ~(ps[p].st = "listening" /\ ps[p].port = q)

\* os.path.isdir(path)
IsDir(ds, path) == path \in ds

\* The controller's fields and the process table as one value, so that one
\* handler's calls compose; out collects the lines the handler prints.
World ==
    [pc |-> pc, shared_dir |-> shared_dir, port |-> port, proc |-> proc,
     url |-> url, shown |-> shown, out |-> <<>>, procs |-> procs, over |-> FALSE]

Say(w, msg) == [w EXCEPT !.out = Append(@, msg)]
SayText(w, text) == [w EXCEPT !.out = @ \o text]

\* What the table keeps of a process the controller holds no handle to: none
\* of one that has exited, and of one still running that it is alive and the
\* port it listens on.
Reap(ps, handle) ==
    [p \in Pids |->
       IF p = handle THEN ps[p]
       ELSE IF ps[p].st = "exited" THEN NoProc
       ELSE IF ps[p].st = "listening" THEN [ps[p] EXCEPT !.dir = ""]
       ELSE IF ps[p].st = "starting" /\ ps[p].term
       THEN [ps[p] EXCEPT !.dir = "", !.port = 0]
       ELSE ps[p]]

\* The handler's result becomes the next state.  A handler that needs more
\* than MaxProcs processes at one time is outside the bound.
Commit(w, op) ==
    /\ ~w.over
    /\ pc' = w.pc
    /\ shared_dir' = w.shared_dir
    /\ port' = w.port
    /\ proc' = w.proc
    /\ url' = w.url
    /\ shown' = w.shown
    /\ last' = [op |-> op, out |-> w.out]
    /\ procs' = Reap(w.procs, w.proc)
    /\ UNCHANGED <<frontend, dismiss_none, external, dirs, rx>>

\* multiprocessing.Process(target=run_server, args=(dir, port)); daemon; start()
\* The new process becomes the handle.
FreePids(w) == {q \in Pids : w.procs[q].st \in {"none", "exited"}}

\* Spawn that launches on the default port whatever the configured one is.
Spawn_default_port(w) ==
    IF FreePids(w) = {} THEN [w EXCEPT !.over = TRUE]
    ELSE LET p == CHOOSE q \in FreePids(w) : \A r \in FreePids(w) : q <= r IN
         [w EXCEPT !.proc = p,
                   !.procs[p] = [st |-> "starting", dir |-> w.shared_dir,
                                 port |-> DefaultPort, term |-> FALSE]]

Spawn(w) ==
    IF FreePids(w) = {} THEN [w EXCEPT !.over = TRUE]
    ELSE LET p == CHOOSE q \in FreePids(w) : \A r \in FreePids(w) : q <= r IN
         [w EXCEPT !.proc = p,
                   !.procs[p] = [st |-> "starting", dir |-> w.shared_dir,
                                 port |-> w.port, term |-> FALSE]]

\* terminate() then join(): the process has exited when join returns.
\* With join(timeout=1) the wait may end first: the process then still runs,
\* the signal pending.
Terminate(ps, p, timed_out) ==
    [ps EXCEPT ![p] = IF timed_out THEN [@ EXCEPT !.term = TRUE]
                      ELSE [NoProc EXCEPT !.st = "exited"]]

\* Interpreter exit: multiprocessing terminates and joins every daemonic child.
AtExit(w) ==
    [w EXCEPT !.procs = [p \in Pids |->
                           IF w.procs[p].st \in {"starting", "listening"}
                           THEN [NoProc EXCEPT !.st = "exited"]
                           ELSE w.procs[p]]]

\* An exception nobody catches ends the program.
Uncaught(w) == IF w.pc = "raised" THEN AtExit([w EXCEPT !.pc = "crashed"]) ELSE w

\* The choices the environment makes during a handler are drawn only where the
\* handler can meet them: a join can time out and a restart can happen only
\* when the server is alive, an address is looked up only after a launch.
Maybe(c) == IF c THEN BOOLEAN ELSE {FALSE}
IpsIf(c) == IF c THEN LocalIps(frontend) ELSE {"127.0.0.1"}
Alive == IsAlive(procs, proc)

\* --------------------------------------------------- pyshare_cli.py
\* start_server without its is_alive() guard.
cli_start_server_unguarded(w, ip, spawn_ok) ==
    Say([Spawn(w) EXCEPT !.url = MakeUrl(ip, w.port)], "Started server")

cli_start_server(w, ip, spawn_ok) ==
    IF IsAlive(w.procs, w.proc)
    THEN Say(w, "Server already running")
    ELSE IF ~spawn_ok
    THEN [w EXCEPT !.pc = "raised"]
    ELSE Say([Spawn(w) EXCEPT !.url = MakeUrl(ip, w.port)], "Started server")

cli_stop_server(w, timed_out) ==
    LET t == IF IsAlive(w.procs, w.proc)
             THEN Say([w EXCEPT !.procs = Terminate(w.procs, w.proc, timed_out)],
                      "Server stopped")
             ELSE Say(w, "Server is not running")
    IN [t EXCEPT !.proc = 0, !.url = <<>>]

cli_restart(w, ip, spawn_ok, timed_out) ==
    IF IsAlive(w.procs, w.proc)
    THEN cli_start_server(cli_stop_server(w, timed_out), ip, spawn_ok)
    ELSE w

cli_dir(w, new, ip, spawn_ok, timed_out) ==
    IF IsDir(dirs, new)
    THEN cli_restart(Say([w EXCEPT !.shared_dir = new], "Serving"),
                     ip, spawn_ok, timed_out)
    ELSE Say(w, "Not a directory")

cli_port(w, new, ip, spawn_ok, timed_out) ==
    LET r == ParseInt(new) IN
    IF ~r.ok THEN Say(w, "Invalid port")
    ELSE IF MinPort <= r.val /\ r.val <= MaxPort
    THEN cli_restart(Say([w EXCEPT !.port = r.val], "Port set"),
                     ip, spawn_ok, timed_out)
    ELSE Say(w, "Port must be 1024-65535")

\* A url command that forgets the URL once it has printed it.
cli_url_forgetting(w) ==
    SayText([w EXCEPT !.url = <<>>], IF w.url = <<>> THEN <<"(stopped)">> ELSE w.url)

\* print(self.url or "(stopped)")
cli_url(w) == SayText(w, IF w.url = <<>> THEN <<"(stopped)">> ELSE w.url)

cli_generate_qr_ascii(u) == IF u = <<>> THEN <<"(stopped)">> ELSE <<"QR">> \o u

cli_qr(w) == SayText(w, cli_generate_qr_ascii(w.url))

CliStart ==
    /\ frontend = "cli" /\ pc = "run"
    /\ \E spawn_ok \in Maybe(~Alive) : \E ip \in IpsIf(spawn_ok) :
         Commit(Uncaught(cli_start_server(World, ip, spawn_ok)), "start")

CliStop ==
    /\ frontend = "cli" /\ pc = "run"
    /\ \E timed_out \in Maybe(Alive) :
         Commit(cli_stop_server(World, timed_out), "stop")

CliDirCmd(new) ==
    /\ frontend = "cli" /\ pc = "run"
    /\ \E spawn_ok, timed_out \in Maybe(Alive) : \E ip \in IpsIf(spawn_ok) :
         Commit(Uncaught(cli_dir(World, new, ip, spawn_ok, timed_out)), "dir")

CliDir == \E new \in DirInputs : CliDirCmd(new)

CliPortCmd(new) ==
    /\ frontend = "cli" /\ pc = "run"
    /\ \E spawn_ok, timed_out \in Maybe(Alive) : \E ip \in IpsIf(spawn_ok) :
         Commit(Uncaught(cli_port(World, new, ip, spawn_ok, timed_out)), "port")

CliPort == \E new \in PortInputs : CliPortCmd(new)

CliUrl == frontend = "cli" /\ pc = "run" /\ Commit(cli_url(World), "url")

CliQr == frontend = "cli" /\ pc = "run" /\ Commit(cli_qr(World), "qr")

\* help, or a word that is no command
CliHelp ==
    /\ frontend = "cli" /\ pc = "run"
    /\ \E msg \in {"Commands", "Unknown command"} : Commit(Say(World, msg), "help")

\* q / quit / exit, or end of input at the "> " prompt: stop_server, break.
CliQuit ==
    /\ frontend = "cli" /\ pc = "run"
    /\ \E timed_out \in Maybe(Alive) :
         Commit(AtExit([cli_stop_server(World, timed_out) EXCEPT !.pc = "done"]),
                "quit")

\* End of input at the follow-up prompt of dir or port: nothing catches it.
CliPromptEOF ==
    /\ frontend = "cli" /\ pc = "run"
    /\ Commit(Uncaught([World EXCEPT !.pc = "raised"]), "prompt")

\* -------------------------------------------------- pyshare_rich.py
rich_start_server(w, ip, spawn_ok) ==
    IF IsAlive(w.procs, w.proc) THEN w
    ELSE IF ~spawn_ok THEN [w EXCEPT !.pc = "raised"]
    ELSE [Spawn(w) EXCEPT !.url = MakeUrl(ip, w.port)]

rich_stop_server(w, timed_out) ==
    LET t == IF IsAlive(w.procs, w.proc)
             THEN [w EXCEPT !.procs = Terminate(w.procs, w.proc, timed_out)]
             ELSE w
    IN [t EXCEPT !.proc = 0, !.url = <<>>]

toggle_server(w, ip, spawn_ok, timed_out) ==
    IF IsAlive(w.procs, w.proc)
    THEN rich_stop_server(w, timed_out)
    ELSE rich_start_server(w, ip, spawn_ok)

rich_restart(w, ip, spawn_ok, timed_out) ==
    IF IsAlive(w.procs, w.proc)
    THEN rich_start_server(rich_stop_server(w, timed_out), ip, spawn_ok)
    ELSE w

\* console.input(...) or self.shared_dir
change_dir(w, typed, ip, spawn_ok, timed_out) ==
    LET new == IF typed = "" THEN w.shared_dir ELSE typed IN
    IF IsDir(dirs, new)
    THEN rich_restart([w EXCEPT !.shared_dir = new], ip, spawn_ok, timed_out)
    ELSE Say(w, "is not a directory")

\* console.input(...) or str(self.port)
change_port(w, typed, ip, spawn_ok, timed_out) ==
    LET new == IF typed = <<>> THEN PortStr(w.port) ELSE typed
        r == ParseInt(new)
    IN IF ~r.ok THEN Say(w, "Invalid port")
       ELSE IF MinPort <= r.val /\ r.val <= MaxPort
       THEN rich_restart([w EXCEPT !.port = r.val], ip, spawn_ok, timed_out)
       ELSE Say(w, "Port must be 1024-65535")

rich_generate_qr_ascii(u) == IF u = <<>> THEN <<"Server is stopped.">> ELSE <<"QR">> \o u

\* render(): the panel built from the fields; the run loop shows it after
\* every key.  An exception leaves the loop before the render.
render(w) ==
    IF w.pc = "raised" THEN w
    ELSE [w EXCEPT !.shown =
            [status |-> IF IsAlive(w.procs, w.proc) THEN "Running" ELSE "Stopped",
             url |-> IF w.url = <<>> THEN <<"(stopped)">> ELSE w.url,
             qr |-> rich_generate_qr_ascii(w.url),
             dir |-> w.shared_dir]]

RichToggle ==
    /\ frontend = "rich" /\ pc = "run"
    /\ \E spawn_ok \in Maybe(~Alive), timed_out \in Maybe(Alive) :
       \E ip \in IpsIf(spawn_ok) :
         Commit(Uncaught(render(toggle_server(World, ip, spawn_ok, timed_out))),
                IF Alive THEN "stop" ELSE "start")

RichChangeDirKey(typed) ==
    /\ frontend = "rich" /\ pc = "run"
    /\ \E spawn_ok, timed_out \in Maybe(Alive) : \E ip \in IpsIf(spawn_ok) :
         Commit(Uncaught(render(change_dir(World, typed, ip, spawn_ok, timed_out))),
                "d")

RichChangeDir == \E typed \in DirInputs : RichChangeDirKey(typed)

RichChangePortKey(typed) ==
    /\ frontend = "rich" /\ pc = "run"
    /\ \E spawn_ok, timed_out \in Maybe(Alive) : \E ip \in IpsIf(spawn_ok) :
         Commit(Uncaught(render(change_port(World, typed, ip, spawn_ok, timed_out))),
                "p")

RichChangePort == \E typed \in PortInputs : RichChangePortKey(typed)

\* Any other key, or none: the panel is rendered again.
RichOther ==
    /\ frontend = "rich" /\ pc = "run"
    /\ \E msg \in {<<>>, <<"Unknown command">>} :
         Commit(render([World EXCEPT !.out = msg]), "other")

\* q, or KeyboardInterrupt / EOFError anywhere in the loop: stop_server, break.
RichQuit ==
    /\ frontend = "rich" /\ pc = "run"
    /\ \E timed_out \in Maybe(Alive) :
         Commit(AtExit([rich_stop_server(World, timed_out) EXCEPT !.pc = "done"]),
                "q")

\* -------------------------------------------------------- pyshare.py
\* run_server up to serve_forever: the state the child reaches.  The CLI and
\* Rich children chdir first; TCPServer(("", port)) then binds, and fails on a
\* port that is held or is None.
BindOutcome(fe, r, ps, ext, ds) ==
    IF fe # "app" /\ ~IsDir(ds, r.dir) THEN "exited"
    ELSE IF r.port = NonePort THEN "exited"
    ELSE IF ~PortFree(ps, ext, r.port) THEN "exited"
    ELSE "listening"

\* The process record after run_server got as far as outcome.
Ran(r, outcome) == IF outcome = "exited" THEN [NoProc EXCEPT !.st = "exited"]
                   ELSE [r EXCEPT !.st = outcome]

generate_qr_code(u) == IF u = <<>> THEN <<"Server is stopped.">> ELSE <<"QR">> \o u

watch_server_process(w, ip) ==
    IF IsAlive(w.procs, w.proc)
    THEN LET u == MakeUrl(ip, w.port) IN
         [w EXCEPT !.url = u,
                   !.shown = [@ EXCEPT !.status = "Running", !.url = u,
                                       !.qr = generate_qr_code(u)]]
    ELSE [w EXCEPT !.url = <<>>,
                   !.shown = [@ EXCEPT !.status = "Stopped", !.url = <<"(stopped)">>,
                                       !.qr = generate_qr_code(<<>>)]]

\* quick: the child has run up to its bind before the watcher asks is_alive().
action_start_server(w, ip, spawn_ok, quick) ==
    IF IsAlive(w.procs, w.proc) THEN w
    ELSE IF ~spawn_ok THEN [w EXCEPT !.pc = "raised"]
    ELSE LET s == Spawn(w)
             p == s.proc
             t == IF quick /\ ~s.over
                  THEN [s EXCEPT !.procs[p] =
                          Ran(@, BindOutcome("app", s.procs[p], s.procs, external, dirs))]
                  ELSE s
         IN IF s.over THEN s ELSE watch_server_process(t, ip)

action_stop_server(w, ip) ==
    IF IsAlive(w.procs, w.proc)
    THEN watch_server_process(
           [w EXCEPT !.procs = Terminate(w.procs, w.proc, FALSE), !.proc = 0], ip)
    ELSE w

app_restart(w, ip, spawn_ok, quick) ==
    IF IsAlive(w.procs, w.proc)
    THEN action_start_server(action_stop_server(w, ip), ip, spawn_ok, quick)
    ELSE w

watch_shared_dir(w, ip, spawn_ok, quick) ==
    app_restart([w EXCEPT !.shown.dir = w.shared_dir], ip, spawn_ok, quick)

watch_port(w, ip, spawn_ok, quick) == app_restart(w, ip, spawn_ok, quick)

\* on_dialog_dismiss: assigning a reactive runs its watcher when the value changes.
set_shared_dir(w, path, ip, spawn_ok, quick) ==
    IF path = w.shared_dir THEN w
    ELSE watch_shared_dir([w EXCEPT !.shared_dir = path], ip, spawn_ok, quick)

set_port(w, p, ip, spawn_ok, quick) ==
    IF p = w.port THEN w
    ELSE watch_port([w EXCEPT !.port = p], ip, spawn_ok, quick)

\* DirectoryDialog.on_button_pressed, OK
dir_dialog_ok(w, path, ip, spawn_ok, quick) ==
    IF IsDir(dirs, path)
    THEN set_shared_dir([w EXCEPT !.pc = "run"], path, ip, spawn_ok, quick)
    ELSE Say(w, "is not a valid directory!")

\* PortDialog.on_button_pressed, OK
port_dialog_ok(w, port_str, ip, spawn_ok, quick) ==
    LET r == ParseInt(port_str) IN
    IF r.ok /\ MinPort <= r.val /\ r.val <= MaxPort
    THEN set_port([w EXCEPT !.pc = "run"], r.val, ip, spawn_ok, quick)
    ELSE Say(w, "Invalid port number!")

\* Cancel: self.dismiss() without a result.
dir_dialog_cancel(w, ip, spawn_ok, quick) ==
    IF dismiss_none
    THEN set_shared_dir([w EXCEPT !.pc = "run"], NoneDir, ip, spawn_ok, quick)
    ELSE [w EXCEPT !.pc = "run"]

port_dialog_cancel(w, ip, spawn_ok, quick) ==
    IF dismiss_none
    THEN set_port([w EXCEPT !.pc = "run"], NonePort, ip, spawn_ok, quick)
    ELSE [w EXCEPT !.pc = "run"]

AppStart ==
    /\ frontend = "app" /\ pc = "run"
    /\ \E spawn_ok \in Maybe(~Alive) : \E ip \in IpsIf(spawn_ok), quick \in Maybe(spawn_ok) :
         Commit(Uncaught(action_start_server(World, ip, spawn_ok, quick)), "start")

AppStop ==
    /\ frontend = "app" /\ pc = "run"
    /\ \E ip \in IpsIf(FALSE) : Commit(action_stop_server(World, ip), "stop")

AppChangeDir ==
    /\ frontend = "app" /\ pc = "run"
    /\ Commit([World EXCEPT !.pc = "dir_dialog"], "change_dir")

AppChangePort ==
    /\ frontend = "app" /\ pc = "run"
    /\ Commit([World EXCEPT !.pc = "port_dialog"], "change_port")

AppDirOkPressed(path) ==
    /\ frontend = "app" /\ pc = "dir_dialog"
    /\ \E spawn_ok \in Maybe(Alive) : \E ip \in IpsIf(spawn_ok), quick \in Maybe(spawn_ok) :
         Commit(Uncaught(dir_dialog_ok(World, path, ip, spawn_ok, quick)), "dir_ok")

AppDirOk == \E path \in DirInputs : AppDirOkPressed(path)

AppDirCancel ==
    /\ frontend = "app" /\ pc = "dir_dialog"
    /\ \E spawn_ok \in Maybe(Alive) : \E ip \in IpsIf(spawn_ok), quick \in Maybe(spawn_ok) :
         Commit(Uncaught(dir_dialog_cancel(World, ip, spawn_ok, quick)), "dir_cancel")

AppPortOkPressed(port_str) ==
    /\ frontend = "app" /\ pc = "port_dialog"
    /\ \E spawn_ok \in Maybe(Alive) : \E ip \in IpsIf(spawn_ok), quick \in Maybe(spawn_ok) :
         Commit(Uncaught(port_dialog_ok(World, port_str, ip, spawn_ok, quick)),
                "port_ok")

AppPortOk == \E port_str \in PortInputs : AppPortOkPressed(port_str)

AppPortCancel ==
    /\ frontend = "app" /\ pc = "port_dialog"
    /\ \E spawn_ok \in Maybe(Alive) : \E ip \in IpsIf(spawn_ok), quick \in Maybe(spawn_ok) :
         Commit(Uncaught(port_dialog_cancel(World, ip, spawn_ok, quick)),
                "port_cancel")

\* action_quit: action_stop_server, exit.
AppQuit ==
    /\ frontend = "app" /\ pc \in {"run", "dir_dialog", "port_dialog"}
    /\ \E ip \in IpsIf(FALSE) :
         Commit(AtExit([action_stop_server(World, ip) EXCEPT !.pc = "done"]), "quit")

\* ------------------------------------------------ the server process
\* run_server reaches its bind.
ServerBind(p) ==
    /\ procs[p].st = "starting" /\ ~procs[p].term
    /\ procs' = Reap([procs EXCEPT ![p] =
                         Ran(@, BindOutcome(frontend, procs[p], procs, external, dirs))],
                    proc)
    /\ UNCHANGED <<frontend, dismiss_none, pc, shared_dir, port, proc, url, shown, last,
                   external, dirs, rx>>

\* The process dies on its own (it is killed, serve_forever raises).
ServerCrash(p) ==
    /\ procs[p].st \in {"starting", "listening"} /\ ~procs[p].term
    /\ procs' = Reap([procs EXCEPT ![p] = Ran(@, "exited")], proc)
    /\ UNCHANGED <<frontend, dismiss_none, pc, shared_dir, port, proc, url, shown, last,
                   external, dirs, rx>>

\* The signal sent by terminate() ends a process whose join timed out.
ServerTerminated(p) ==
    /\ procs[p].st \in {"starting", "listening"} /\ procs[p].term
    /\ procs' = Reap([procs EXCEPT ![p] = Ran(@, "exited")], proc)
    /\ UNCHANGED <<frontend, dismiss_none, pc, shared_dir, port, proc, url, shown, last,
                   external, dirs, rx>>

\* ------------------------------------------------------ environment
\* Another program binds a free port, or gives one up.
ExternalBind(q) ==
    /\ PortFree(procs, external, q)
    /\ external' = external \cup {q}
    /\ UNCHANGED <<frontend, dismiss_none, dirs, rx>> /\ UNCHANGED ctl

ExternalRelease(q) ==
    /\ q \in external
    /\ external' = external \ {q}
    /\ UNCHANGED <<frontend, dismiss_none, dirs, rx>> /\ UNCHANGED ctl

RemoveDir ==
    /\ OtherDir \in dirs
    /\ dirs' = dirs \ {OtherDir}
    /\ UNCHANGED <<frontend, dismiss_none, external, rx>> /\ UNCHANGED ctl

CreateDir ==
    /\ OtherDir \notin dirs
    /\ dirs' = dirs \cup {OtherDir}
    /\ UNCHANGED <<frontend, dismiss_none, external, rx>> /\ UNCHANGED ctl

\* ---------------------------------------------------- pyshare_recv.py
\* Texts are sequences of characters.
Name_a == <<"a", ".", "t", "x", "t">>
Name_b == <<"b", ".", "p", "n", "g">>
Name_sub == <<"s", "u", "b", "/">>
AllWord == <<"a", "l", "l">>

SeqsUpTo(S, n) == UNION {[1 .. k -> S] : k \in 0 .. n}

\* The <a> elements a listing page may hold: a file whose text is padded with
\* blanks, a directory, a second file, an anchor without href, an empty href.
AnchorPool ==
    { [text |-> <<" ">> \o Name_a \o <<" ">>, has_href |-> TRUE, href |-> Name_a],
      [text |-> Name_sub, has_href |-> TRUE, href |-> Name_sub],
      [text |-> Name_b, has_href |-> TRUE, href |-> Name_b],
      [text |-> <<"t", "o", "p">>, has_href |-> FALSE, href |-> <<>>],
      [text |-> <<"#">>, has_href |-> TRUE, href |-> <<>>] }
Pages == SeqsUpTo(AnchorPool, MaxAnchors)

\* The words of a selection line, as choice.split() yields them.
TokenPool == {AllWord, <<"A", "L", "L">>, <<"1">>, <<"2">>, <<"5">>, <<"0">>, <<"x">>}
Choices == SeqsUpTo(TokenPool, MaxTokens)

\* Response bodies as iter_content yields them, chunk by chunk.
ChunkPool == {<<>>, <<"x">>, <<"y", "z">>}
Bodies == SeqsUpTo(ChunkPool, MaxChunks)
MainBody == << <<"x">>, <<"y", "z">> >>

\* How one download_file call goes: the request fails or answers an error
\* status, the body breaks after k chunks, or all of it arrives.
Outcomes(body) ==
    {[kind |-> "refused", k |-> 0], [kind |-> "ok", k |-> Len(body)]}
      \cup {[kind |-> "broken", k |-> k] : k \in 0 .. Len(body)}
MainOutcomes ==
    {[kind |-> "refused", k |-> 0], [kind |-> "broken", k |-> 1],
     [kind |-> "ok", k |-> Len(MainBody)]}

\* The local directory: a function from the names of the files in it to
\* their content.
EmptyFs == [n \in {} |-> <<>>]
OldFs == [n \in {Name_a} |-> <<"o", "l", "d">>]
Put(fs, name, data) == [n \in DOMAIN fs \cup {name} |-> IF n = name THEN data ELSE fs[n]]

RECURSIVE LStrip(_)
LStrip(s) == IF s # <<>> /\ s[1] = " " THEN LStrip(Tail(s)) ELSE s

RECURSIVE RStrip(_)
RStrip(s) == IF s # <<>> /\ s[Len(s)] = " " THEN RStrip(SubSeq(s, 1, Len(s) - 1)) ELSE s

\* str.strip()
Strip(s) == RStrip(LStrip(s))

\* str.lower()
LowerChar(c) == CASE c = "A" -> "a" [] c = "L" -> "l" [] OTHER -> c
RECURSIVE Lower(_)
Lower(s) == IF s = <<>> THEN <<>> ELSE <<LowerChar(Head(s))>> \o Lower(Tail(s))

\* href.endswith('/')
EndsWithSlash(s) == s # <<>> /\ s[Len(s)] = "/"

\* os.path.basename(urlparse(urljoin(base, href)).path)
RECURSIVE Basename(_)
Basename(s) ==
    IF s = <<>> \/ s[Len(s)] = "/" THEN <<>>
    ELSE Basename(SubSeq(s, 1, Len(s) - 1)) \o <<s[Len(s)]>>

\* list_files without the test of the trailing slash.
RECURSIVE list_files_with_dirs(_)
list_files_with_dirs(anchors) ==
    IF anchors = <<>> THEN <<>>
    ELSE LET a == Head(anchors) IN
         (IF a.has_href /\ a.href # <<>>
          THEN << [name |-> Strip(a.text), href |-> a.href] >>
          ELSE <<>>) \o list_files_with_dirs(Tail(anchors))

\* list_files, from the anchors of the page it fetched.
RECURSIVE list_files(_)
list_files(anchors) ==
    IF anchors = <<>> THEN <<>>
    ELSE LET a == Head(anchors) IN
         (IF a.has_href /\ a.href # <<>> /\ ~EndsWithSlash(a.href)
          THEN << [name |-> Strip(a.text), href |-> a.href] >>
          ELSE <<>>) \o list_files(Tail(anchors))

\* idxs: int(part) - 1 for every part that int() accepts.
RECURSIVE parse_idxs(_)
parse_idxs(parts) ==
    IF parts = <<>> THEN <<>>
    ELSE (IF ParseInt(Head(parts)).ok THEN <<ParseInt(Head(parts)).val - 1>> ELSE <<>>)
           \o parse_idxs(Tail(parts))

\* pick without the "- 1": the indices taken as 0-based.
RECURSIVE pick_zero_based(_, _)
pick_zero_based(files, idxs) ==
    IF idxs = <<>> THEN <<>>
    ELSE (IF 0 <= Head(idxs) + 1 /\ Head(idxs) + 1 < Len(files)
          THEN <<files[Head(idxs) + 2]>> ELSE <<>>)
           \o pick_zero_based(files, Tail(idxs))

\* for i in idxs: if 0 <= i < len(files): to_download.append(files[i])
RECURSIVE pick(_, _)
pick(files, idxs) ==
    IF idxs = <<>> THEN <<>>
    ELSE (IF 0 <= Head(idxs) /\ Head(idxs) < Len(files)
          THEN <<files[Head(idxs) + 1]>> ELSE <<>>)
           \o pick(files, Tail(idxs))

\* choice is the line typed, stripped: it is 'all' in any case exactly when it
\* is that one word.
to_download(files, choice) ==
    IF Len(choice) = 1 /\ Lower(choice[1]) = AllWord THEN files
    ELSE pick(files, parse_idxs(choice))

\* for chunk in r.iter_content(8192): if chunk: f.write(chunk)
RECURSIVE write_chunks(_, _)
write_chunks(data, chunks) ==
    IF chunks = <<>> THEN data
    ELSE write_chunks(IF Head(chunks) # <<>> THEN data \o Head(chunks) ELSE data,
                      Tail(chunks))

\* download_file that opens the destination before it sends the request.
download_file_open_first(fs, href, body, outcome) ==
    LET local_name == Basename(href) IN
    IF outcome.kind = "refused"
    THEN [fs |-> Put(fs, local_name, <<>>), raised |-> TRUE, path |-> <<>>]
    ELSE [fs |-> Put(fs, local_name, write_chunks(<<>>, SubSeq(body, 1, outcome.k))),
          raised |-> outcome.kind = "broken",
          path |-> <<".", "/">> \o local_name]

\* download_file that keeps the file only when the whole body has arrived.
download_file_atomic(fs, href, body, outcome) ==
    LET local_name == Basename(href) IN
    IF outcome.kind # "ok"
    THEN [fs |-> fs, raised |-> TRUE, path |-> <<>>]
    ELSE [fs |-> Put(fs, local_name, write_chunks(<<>>, SubSeq(body, 1, outcome.k))),
          raised |-> FALSE,
          path |-> <<".", "/">> \o local_name]

\* download_file: raise_for_status comes before open(path, 'wb'); a failure
\* while the body arrives leaves what was written.
download_file(fs, href, body, outcome) ==
    LET local_name == Basename(href) IN
    IF outcome.kind = "refused"
    THEN [fs |-> fs, raised |-> TRUE, path |-> <<>>]
    ELSE [fs |-> Put(fs, local_name, write_chunks(<<>>, SubSeq(body, 1, outcome.k))),
          raised |-> outcome.kind = "broken",
          path |-> <<".", "/">> \o local_name]

\* The loop over to_download that ends at the first failure.
RECURSIVE download_all_abort(_, _, _, _)
download_all_abort(r, todo, outcomes, body) ==
    IF todo = <<>> THEN r
    ELSE LET e == Head(todo)
             d == download_file(r.fs, e.href, body, Head(outcomes))
             t == [fs |-> d.fs,
                   attempts |-> Append(r.attempts, e.href),
                   out |-> r.out \o << [msg |-> "Downloading", name |-> e.name],
                                       [msg |-> IF d.raised THEN "Failed to download"
                                                ELSE "Saved to",
                                        name |-> e.name] >>]
         IN IF d.raised THEN t
            ELSE download_all_abort(t, Tail(todo), Tail(outcomes), body)

\* main, the loop over to_download: every download_file call is in its own
\* try / except Exception.
RECURSIVE download_all(_, _, _, _)
download_all(r, todo, outcomes, body) ==
    IF todo = <<>> THEN r
    ELSE LET e == Head(todo)
             d == download_file(r.fs, e.href, body, Head(outcomes))
         IN download_all(
              [fs |-> d.fs,
               attempts |-> Append(r.attempts, e.href),
               out |-> r.out \o << [msg |-> "Downloading", name |-> e.name],
                                   [msg |-> IF d.raised THEN "Failed to download"
                                            ELSE "Saved to",
                                    name |-> e.name] >>],
              Tail(todo), Tail(outcomes), body)

\* The receiver's run before anything was typed, and no receiver at all; fs0
\* keeps the local directory as the run found it.
RxStart(mode, at, page, body, fs) ==
    [mode |-> mode, pc |-> at, page |-> page, body |-> body, fs0 |-> fs, fs |-> fs,
     files |-> <<>>, choice |-> <<>>, outcomes |-> <<>>, attempts |-> <<>>,
     out |-> <<>>]
RxIdle == RxStart("idle", "done", <<>>, <<>>, EmptyFs)

\* The receiver touches nothing of a controller.
RxFrame == UNCHANGED <<frontend, dismiss_none, external, dirs>> /\ UNCHANGED ctl

\* main up to the second input(): the URL typed, list_files, the listing.
RecvUrl ==
    /\ rx.mode = "main" /\ rx.pc = "url"
    /\ RxFrame
    /\ \E typed, listed \in BOOLEAN :
         rx' = IF ~typed THEN [rx EXCEPT !.pc = "done"]
               ELSE IF ~listed
               THEN [rx EXCEPT !.pc = "done",
                               !.out = << [msg |-> "Failed to list files", name |-> <<>>] >>]
               ELSE LET files == list_files(rx.page) IN
                    IF files = <<>>
                    THEN [rx EXCEPT !.pc = "done",
                                    !.out = << [msg |-> "No files found", name |-> <<>>] >>]
                    ELSE [rx EXCEPT !.pc = "choice", !.files = files]

\* main from the selection typed to its end.
RecvChoose ==
    /\ rx.mode = "main" /\ rx.pc = "choice"
    /\ RxFrame
    /\ \E choice \in Choices :
         LET todo == to_download(rx.files, choice) IN
         \E outcomes \in [1 .. Len(todo) -> MainOutcomes] :
           LET r == download_all([fs |-> rx.fs, attempts |-> <<>>, out |-> <<>>],
                                 todo, outcomes, rx.body)
           IN rx' = [rx EXCEPT !.pc = "done", !.choice = choice,
                               !.outcomes = outcomes, !.fs = r.fs,
                               !.attempts = r.attempts, !.out = r.out]

\* End of input at either prompt: input() raises and nothing catches it.
RecvEOF ==
    /\ rx.mode = "main" /\ rx.pc \in {"url", "choice"}
    /\ RxFrame
    /\ rx' = [rx EXCEPT !.pc = "crashed"]

\* One call of download_file on its own.
DlDownload ==
    /\ rx.mode = "dl" /\ rx.pc = "call"
    /\ RxFrame
    /\ \E outcome \in Outcomes(rx.body) :
         LET d == download_file(rx.fs, Name_a, rx.body, outcome) IN
         rx' = [rx EXCEPT !.pc = IF d.raised THEN "raised" ELSE "returned",
                          !.outcomes = <<outcome>>, !.attempts = <<Name_a>>,
                          !.fs = d.fs]

\* ------------------------------------------------------ construction
Fresh ==
    [pc |-> "run", shared_dir |-> Cwd, port |-> DefaultPort, proc |-> 0, url |-> <<>>,
     shown |-> NoShow, out |-> <<>>, procs |-> [p \in Pids |-> NoProc], over |-> FALSE]

\* PyShareCLI.__init__: the defaults, then start_server().
cli_init(ip, spawn_ok) == Uncaught(cli_start_server(Fresh, ip, spawn_ok))

\* PyShareRich.__init__: the same, a failed start leaves the server stopped;
\* run() then renders the panel.
rich_init(ip, spawn_ok) ==
    LET w == rich_start_server(Fresh, ip, spawn_ok) IN
    render(IF w.pc = "raised" THEN [w EXCEPT !.pc = "run", !.proc = 0] ELSE w)

\* PyShareApp: the reactive defaults, compose() and on_mount().
app_init ==
    [Fresh EXCEPT !.shown = [status |-> "Stopped", url |-> <<"(stopped)">>,
                             qr |-> generate_qr_code(<<>>), dir |-> Cwd]]

Ports == {DefaultPort, OtherPort}

Init ==
    /\ frontend \in FrontEnds
    /\ dismiss_none \in (IF frontend = "app" THEN BOOLEAN ELSE {FALSE})
    /\ external \in SUBSET Ports
    /\ dirs \in {{Cwd}, {Cwd, OtherDir}}
    /\ \E ip \in LocalIps(frontend), spawn_ok \in BOOLEAN :
         LET w == CASE frontend = "cli" -> cli_init(ip, spawn_ok)
                    [] frontend = "rich" -> rich_init(ip, spawn_ok)
                    [] frontend = "app" -> app_init
         IN /\ pc = w.pc
            /\ shared_dir = w.shared_dir
            /\ port = w.port
            /\ proc = w.proc
            /\ url = w.url
            /\ shown = w.shown
            /\ last = [op |-> "init", out |-> w.out]
            /\ procs = w.procs
    /\ rx = RxIdle

Next ==
    \/ CliStart \/ CliStop \/ CliDir \/ CliPort \/ CliUrl \/ CliQr \/ CliHelp
    \/ CliQuit \/ CliPromptEOF
    \/ RichToggle \/ RichChangeDir \/ RichChangePort \/ RichOther \/ RichQuit
    \/ AppStart \/ AppStop \/ AppChangeDir \/ AppChangePort
    \/ AppDirOk \/ AppDirCancel \/ AppPortOk \/ AppPortCancel \/ AppQuit
    \/ \E p \in Pids : ServerBind(p) \/ ServerCrash(p) \/ ServerTerminated(p)
    \/ \E q \in Ports : ExternalBind(q) \/ ExternalRelease(q)
    \/ RemoveDir \/ CreateDir

Spec == Init /\ [][Next]_vars

\* pyshare_recv.py run on its own: main on a listing page, or one download.
RecvInit ==
    /\ frontend = "none" /\ dismiss_none = FALSE /\ pc = "done"
    /\ shared_dir = Cwd /\ port = DefaultPort /\ proc = 0 /\ url = <<>>
    /\ shown = NoShow /\ last = [op |-> "init", out |-> <<>>]
    /\ procs = [p \in Pids |-> NoProc] /\ external = {} /\ dirs = {Cwd}
    /\ \E fs \in {EmptyFs, OldFs} :
         \/ \E page \in Pages : rx = RxStart("main", "url", page, MainBody, fs)
         \/ \E body \in Bodies : rx = RxStart("dl", "call", <<>>, body, fs)

RecvNext == RecvUrl \/ RecvChoose \/ RecvEOF \/ DlDownload

RecvSpec == RecvInit /\ [][RecvNext]_vars

\* ------------------------------------------------------------ claims
Running == {"run", "dir_dialog", "port_dialog"}
AlivePids == {p \in Pids : procs[p].st \in {"starting", "listening"}}

\* The steps in which a front end calls its start operation, and its stop
\* operation (the Rich front end's s key calls one or the other).
StartOp == CliStart \/ AppStart \/ (RichToggle /\ ~Alive)
StopOp == CliStop \/ AppStop \/ (RichToggle /\ Alive)

\* What a status read shows in the current state: the CLI's url command, the
\* Rich panel drawn anew, the Textual widgets.
StatusRead ==
    CASE frontend = "cli" -> [status |-> "", url |-> cli_url(World).out]
      [] frontend = "rich" -> [status |-> render(World).shown.status,
                               url |-> render(World).shown.url]
      [] frontend = "app" -> [status |-> shown.status, url |-> shown.url]

\* C1: at most one server process launched by the controller is alive at a
\* time, in every reachable state of every front end.
C1_AtMostOneAlive == Cardinality(AlivePids) <= 1

\* C2: between controller operations the share URL is non-empty if and only
\* if the controller holds a server process that is alive, also after the
\* process died on its own or failed to bind.
C2_UrlIffRunning == pc \in Running => ((url # <<>>) <=> Alive)

\* C3: whenever stop() returns, the server process that was running has
\* exited and no longer holds its port, also when the wait was bounded by a
\* timeout.
C3_StopReleasesPort ==
    [][(StopOp /\ Alive) => (procs'[proc].st \notin {"starting", "listening"}
                              /\ \A p \in Pids : procs'[p].st # "listening")]_vars

\* C4: start() from Stopped with the configured port already in use returns
\* with the controller Stopped: no live server handle and no share URL.
C4_BusyPortLeavesStopped ==
    [][(StartOp /\ ~Alive /\ ~PortFree(procs, external, port) /\ pc' = "run")
         => (url' = <<>> /\ ~IsAlive(procs', proc'))]_vars

\* C5: in every state where start() has returned with state Running, the
\* server is listening on the configured port.
C5_RunningMeansListening ==
    (last.op = "start" /\ pc = "run" /\ Alive)
      => (procs[proc].st = "listening" /\ procs[proc].port = port)

\* The steps in which a running controller's port, or directory, is changed.
PortChange == (CliPort \/ RichChangePort \/ AppPortOk) /\ Alive /\ port' # port /\ pc' = "run"
DirChange ==
    (CliDir \/ RichChangeDir \/ AppDirOk) /\ Alive /\ shared_dir' # shared_dir /\ pc' = "run"

\* C6: after a successful change of port from p1 to p2 # p1 on a Running
\* controller, the controller is Running with its server launched on p2 and
\* the current directory, the share URL names p2, and no process launched by
\* the controller still holds p1; after a successful directory change the
\* running server was launched with the new directory.
C6_ReconfigureMatches ==
    [][/\ PortChange =>
            /\ IsAlive(procs', proc')
            /\ procs'[proc'].port = port' /\ procs'[proc'].dir = shared_dir'
            /\ \E ip \in LocalIps(frontend) : url' = MakeUrl(ip, port')
            /\ \A p \in Pids : ~(procs'[p].st = "listening" /\ procs'[p].port = port)
       /\ DirChange => (IsAlive(procs', proc') /\ procs'[proc'].dir = shared_dir')]_vars

\* C7: start() called while the configured directory is not an existing
\* directory launches no process and leaves the state Stopped.
C7_StartChecksDirectory ==
    [][(StartOp /\ ~Alive /\ ~IsDir(dirs, shared_dir))
         => (procs' = procs /\ url' = <<>> /\ ~IsAlive(procs', proc'))]_vars

\* The requests that must be rejected. At the Rich prompts an empty line asks
\* for the current value.
NotADir(path) == ~IsDir(dirs, path)
NotAPort(text) ==
    ~(ParseInt(text).ok /\ MinPort <= ParseInt(text).val /\ ParseInt(text).val <= MaxPort)

RejectedDirStep ==
    \E typed \in DirInputs :
      \/ NotADir(typed) /\ (CliDirCmd(typed) \/ AppDirOkPressed(typed))
      \/ NotADir(IF typed = "" THEN shared_dir ELSE typed) /\ RichChangeDirKey(typed)
RejectedPortStep ==
    \E typed \in PortInputs :
      \/ NotAPort(typed) /\ (CliPortCmd(typed) \/ AppPortOkPressed(typed))
      \/ NotAPort(IF typed = <<>> THEN PortStr(port) ELSE typed) /\ RichChangePortKey(typed)

\* C8 (first half): a change-directory request whose path is not an existing
\* directory and a change-port request whose value is not an integer in
\* [1024, 65535] leave the directory, the port, the share URL and the server
\* process unchanged.
C8_RejectedChangesNothing ==
    [][(RejectedDirStep \/ RejectedPortStep)
         => UNCHANGED <<shared_dir, port, url, proc, procs, pc>>]_vars

\* C8 (second half): the port held by the controller is an integer in
\* [1024, 65535] in every reachable state.
C8_PortInRange == MinPort <= port /\ port <= MaxPort

\* A status read that reports a stopped controller.
ReadsStopped == StatusRead.status \in {"", "Stopped"} /\ StatusRead.url = <<"(stopped)">>

\* C9: once the server process has died on its own while the controller was
\* Running, the next status read reports Stopped and shows no share URL.
C9_DeadReadsStopped ==
    [][(pc = "run" /\ proc # 0 /\ procs[proc].st = "listening" /\ ServerCrash(proc))
         => ReadsStopped']_vars

\* C10: start() while the controller holds a live server process launches no
\* new process, keeps the same server instance and leaves the share URL, the
\* port and the directory unchanged.
C10_StartIdempotent ==
    [][(StartOp /\ Alive) => UNCHANGED <<proc, procs, url, port, shared_dir, pc>>]_vars

\* C10 witness: start was asked of a controller whose server is listening,
\* and answered that the server already runs.
C10_Witness ==
    /\ last = [op |-> "start", out |-> <<"Server already running">>]
    /\ Alive /\ procs[proc].st = "listening"

\* C11: every call of stop, from Running, from Stopped or after the server
\* process died on its own, returns without an error and leaves the controller
\* Stopped with the share URL cleared.
C11_StopClears ==
    [][StopOp => (pc' = "run" /\ ~IsAlive(procs', proc') /\ url' = <<>>)]_vars

\* The steps in which a change of directory or of port is requested.
Reconfigure == CliDir \/ CliPort \/ RichChangeDir \/ RichChangePort \/ AppDirOk \/ AppPortOk

\* C12: a change-directory or change-port request issued while the controller
\* is Stopped launches no server process and leaves the controller Stopped
\* with no share URL.
C12_StoppedStaysStopped ==
    [][(Reconfigure /\ ~Alive)
         => (procs' = procs /\ ~IsAlive(procs', proc') /\ url' = <<>>)]_vars

\* C12 (the part about processes): such a request launches no process and
\* touches neither the handle nor the URL.
C12_NoLaunchWhileStopped ==
    [][(Reconfigure /\ ~Alive) => UNCHANGED <<procs, proc, url>>]_vars

\* A valid pair: an existing directory and a port in range that nothing holds.
ValidConfig ==
    /\ IsDir(dirs, shared_dir)
    /\ MinPort <= port /\ port <= MaxPort
    /\ PortFree(procs, external, port)

\* C13: for every valid (dir, port) pair, once start from Stopped has
\* returned, a status read reports Running, the server was launched on
\* exactly that directory and port, and the share URL is built from that port.
C13_StartReportsRunning ==
    [][(StartOp /\ ~Alive /\ ValidConfig /\ pc' = "run")
         => /\ IsAlive(procs', proc')
            /\ procs'[proc'].dir = shared_dir /\ procs'[proc'].port = port
            /\ \E ip \in LocalIps(frontend) : url' = MakeUrl(ip, port)
            /\ (StatusRead.url = url /\ StatusRead.status \in {"", "Running"})']_vars

\* C13 witness: the Rich front end started its server on the other directory
\* and the other port, configured while it was stopped.
C13_Witness ==
    /\ frontend = "rich" /\ last.op = "start" /\ pc = "run"
    /\ shared_dir = OtherDir /\ port = OtherPort
    /\ Alive /\ procs[proc].dir = OtherDir /\ procs[proc].port = OtherPort
    /\ shown.status = "Running" /\ shown.url = MakeUrl("192.168.1.5", OtherPort)

\* C14: the CLI's url and qr commands and the Rich front end's render leave
\* the directory, the port, the share URL, the process handle and the
\* processes as they were, in every state.
C14_ReadsDoNotMutate ==
    [][(CliUrl \/ CliQr \/ RichOther) => UNCHANGED <<shared_dir, port, url, proc, procs>>]_vars

\* C14 witness: the url command has run on a controller whose server process
\* is dead and whose URL is still set.
C14_Witness ==
    /\ frontend = "cli" /\ last.op = "url" /\ last.out = url /\ url # <<>>
    /\ proc # 0 /\ procs[proc].st = "exited"

\* C18: right after construction of PyShareCLI or PyShareRich the controller
\* holds the defaults and has launched one server process with port 8000 and
\* the working directory, or, the default start having failed, is Stopped and
\* has not crashed.
C18_DefaultStart ==
    (frontend \in {"cli", "rich"} /\ last.op = "init")
      => /\ pc = "run" /\ port = DefaultPort /\ shared_dir = Cwd
         /\ IF proc = 0
            THEN url = <<>> /\ \A p \in Pids : procs[p].st = "none"
            ELSE /\ \A p \in Pids \ {proc} : procs[p].st = "none"
                 /\ procs[proc].st = "starting"
                      => (procs[proc].port = DefaultPort /\ procs[proc].dir = Cwd)

\* C20: in the Textual front end Cancel in the directory dialog or the port
\* dialog leaves shared_dir and port unchanged and neither stops nor restarts
\* the server.
C20_CancelChangesNothing ==
    [][(AppDirCancel \/ AppPortCancel)
         => UNCHANGED <<shared_dir, port, proc, procs, url>>]_vars

\* C21: every step by which the CLI's REPL loop ends (quit, or end of input
\* at the main prompt or at a follow-up prompt of dir or port) has called
\* stop_server: the controller holds no process and the URL is empty once
\* repl() has terminated.
C21_ReplEndsStopped ==
    [][(frontend = "cli" /\ pc = "run" /\ pc' \in {"done", "crashed"})
         => (proc' = 0 /\ url' = <<>>)]_vars

\* ------------------------------------------------- claims, receiver
\* result holds, in order, proj of exactly the elements of source at the
\* positions in keep.
IsSelection(result, source, keep, proj(_)) ==
    /\ Len(result) = Cardinality(keep)
    /\ \E f \in [1 .. Len(result) -> keep] :
         /\ \A i, j \in 1 .. Len(result) : i < j => f[i] < f[j]
         /\ \A j \in 1 .. Len(result) : result[j] = proj(source[f[j]])

Blanks(n) == [i \in 1 .. n |-> " "]
IsStripOf(name, text) ==
    /\ name = <<>> \/ (name[1] # " " /\ name[Len(name)] # " ")
    /\ \E i, j \in 0 .. Len(text) : text = Blanks(i) \o name \o Blanks(j)

HrefOf(e) == e.href
Hrefs(entries) == [i \in 1 .. Len(entries) |-> entries[i].href]
Qualifies(a) == a.has_href /\ a.href # <<>> /\ a.href[Len(a.href)] # "/"

\* main has fetched the listing; main has run to its end on a selection.
Listed ==
    /\ rx.mode = "main"
    /\ rx.pc = "choice" \/ rx.files # <<>>
          \/ rx.out = << [msg |-> "No files found", name |-> <<>>] >>
Chosen == rx.mode = "main" /\ rx.pc = "done" /\ rx.files # <<>>

\* C15: list_files returns exactly the anchors whose href is present and does
\* not end in '/', as (display name, href) entries in document order; for the
\* anchors a.txt, sub/, b.png it returns a.txt, b.png; it is empty when no
\* anchor qualifies.
C15_ListFilesExact ==
    Listed =>
      /\ IsSelection(Hrefs(rx.files), rx.page,
                     {i \in 1 .. Len(rx.page) : Qualifies(rx.page[i])}, HrefOf)
      /\ \A j \in 1 .. Len(rx.files) :
           \E i \in 1 .. Len(rx.page) :
             rx.page[i].href = rx.files[j].href /\ IsStripOf(rx.files[j].name, rx.page[i].text)
      /\ Hrefs(rx.page) = <<Name_a, Name_sub, Name_b>>
           => Hrefs(rx.files) = <<Name_a, Name_b>>

\* C15 witness: the page a.txt, sub/, b.png has been listed.
C15_Witness ==
    /\ rx.mode = "main" /\ rx.pc = "choice"
    /\ Hrefs(rx.page) = <<Name_a, Name_sub, Name_b>>
    /\ Hrefs(rx.files) = <<Name_a, Name_b>>
    /\ rx.files[1].name = Name_a

\* C16: over a listing of n entries the word "all" attempts exactly n
\* downloads, and a list of 1-based indices attempts one download for each
\* index in 1..n, in the order typed, and none for an index outside it;
\* "1 5" on three entries attempts one download.
C16_SelectionProtocol ==
    Chosen =>
      LET n == Len(rx.files)
          c == rx.choice
          val(t) == ParseInt(t).val
          FileAt(t) == rx.files[val(t)].href
      IN /\ c = <<AllWord>> => rx.attempts = Hrefs(rx.files)
         /\ (\A k \in 1 .. Len(c) : ParseInt(c[k]).ok)
              => IsSelection(rx.attempts, c,
                             {k \in 1 .. Len(c) : 1 <= val(c[k]) /\ val(c[k]) <= n}, FileAt)
         /\ (n = 3 /\ c = << <<"1">>, <<"5">> >>) => Len(rx.attempts) = 1

\* C16 witness: "1 5" was typed on a listing of three entries and the first
\* entry alone was attempted.
C16_Witness ==
    /\ Chosen /\ Len(rx.files) = 3
    /\ rx.choice = << <<"1">>, <<"5">> >>
    /\ rx.attempts = <<rx.files[1].href>>

\* C17: whatever subset of the selected downloads fails, every selected entry
\* is attempted, in order, each failure is reported for its file, and the
\* receiver reaches its end.
C17_FailuresDoNotAbort ==
    Chosen =>
      LET todo == to_download(rx.files, rx.choice) IN
      /\ rx.attempts = Hrefs(todo)
      /\ Len(rx.out) = 2 * Len(todo)
      /\ \A j \in 1 .. Len(todo) :
           /\ rx.out[2 * j].name = todo[j].name
           /\ rx.out[2 * j].msg = "Failed to download" <=> rx.outcomes[j].kind # "ok"

\* C17 witness: of three selected downloads the first was refused, the second
\* broke and the third was attempted and saved.
C17_Witness ==
    /\ Chosen /\ Len(rx.attempts) = 3
    /\ rx.outcomes[1].kind = "refused" /\ rx.outcomes[2].kind = "broken"
    /\ rx.outcomes[3].kind = "ok" /\ rx.out[6].msg = "Saved to"

RECURSIVE Concat(_)
Concat(chunks) == IF chunks = <<>> THEN <<>> ELSE Head(chunks) \o Concat(Tail(chunks))

\* C19: a download that fails after k chunks were written raises and leaves
\* the destination file holding exactly the first k chunks; one that
\* completes leaves a file that is the concatenation of all the chunks.
C19_PartialFileKept ==
    (rx.mode = "dl" /\ rx.pc # "call") =>
      LET o == rx.outcomes[1] IN
      /\ o.kind = "broken" =>
           /\ rx.pc = "raised"
           /\ Name_a \in DOMAIN rx.fs
           /\ rx.fs[Name_a] = Concat(SubSeq(rx.body, 1, o.k))
      /\ o.kind = "ok" =>
           /\ rx.pc = "returned"
           /\ Name_a \in DOMAIN rx.fs /\ rx.fs[Name_a] = Concat(rx.body)

\* C19 witness: a download of a two-chunk body broke after its first chunk
\* and the file holds that chunk.
C19_Witness ==
    /\ rx.mode = "dl" /\ rx.pc = "raised"
    /\ rx.outcomes[1] = [kind |-> "broken", k |-> 1]
    /\ Len(rx.body) = 2 /\ rx.body[1] # <<>> /\ rx.body[2] # <<>>
    /\ rx.fs[Name_a] = rx.body[1]

\* C22: when the request errors or answers a non-success status,
\* download_file raises and the local directory is as it was: no file is
\* created and an existing file of the same name keeps its content.
C22_RefusedTouchesNothing ==
    /\ (rx.mode = "dl" /\ rx.pc # "call" /\ rx.outcomes[1].kind = "refused")
         => (rx.pc = "raised" /\ rx.fs = rx.fs0)
    /\ (Chosen /\ \A j \in 1 .. Len(rx.outcomes) : rx.outcomes[j].kind = "refused")
         => rx.fs = rx.fs0

\* C22 witness: a request for a non-empty body was refused while a file of
\* the same name existed, and that file still holds its old content.
C22_Witness ==
    /\ rx.mode = "dl" /\ rx.pc = "raised"
    /\ rx.outcomes[1].kind = "refused"
    /\ rx.body # <<>> /\ rx.fs0 = OldFs /\ rx.fs = OldFs

====
